---- MODULE Spec2Model ----
(***************************************************************************)
(* Live Tab Groups: the reconciliation engine (syncGroup), the matcher     *)
(* (tabsByExactUrls), the GitHub PR provider (fetchUrls, normalizeUrl),    *)
(* the sweep (syncAll) and the manual trigger (syncNow), as a state        *)
(* machine over the browser's tabs and tab groups.                         *)
(*                                                                         *)
(* Every await of the source is a step boundary: the browser (a tab        *)
(* finishing its navigation) may act between two steps of a pass.          *)
(***************************************************************************)
EXTENDS Integers, Sequences, FiniteSets, TLC

VARIABLES
  tabs,       \* open tabs: tab id -> [url, target, group, window]
  groups,     \* existing tab groups: group id -> [title, color, window]
  nextTab,    \* the id the browser gives the next tab
  nextGroup,  \* the id the browser gives the next group
  cfg,        \* stored configuration: provider -> [enabled, token, closeMissing]
  timers,     \* the provider's alarm and the handlers that set it
  pass,       \* per handler: the locals and the call log of its syncGroup pass
  last,       \* the previous finished pass of the alarm handler
  sweep,      \* the locals of syncAll and what became of its passes
  ui,         \* the manual trigger: the listener's response, the page's status
  passes      \* passes and sweeps started so far: [alarm, sweep]

vars == <<tabs, groups, nextTab, nextGroup, cfg, timers, pass, last, sweep, ui, passes>>

---------------------------------------------------------------------------
(* Bounds of the model *)

MaxTabs == 4          \* tab ids the browser hands out in one behaviour
MaxPasses == 2        \* passes the alarm starts in one behaviour
MaxSweeps == 1        \* manual syncs in one behaviour
InitTabs == 2         \* tabs open when the extension starts
NumProviders == 2     \* entries of cfg.groups in a sweep
NumQueries == 2       \* search queries of the provider's configuration
MaxSaves == 2         \* clicks on Save in one behaviour

Providers == 1..NumProviders
GitHubPRs == 1
Procs == {"alarm", "sweep"}
Registered == Providers   \* window.LiveTabGroupsProviders

---------------------------------------------------------------------------
(* URLs.  A URL is [host, pr, sub]: host p is the site of provider p       *)
(* (github.com for github-prs), pr > 0 a path /owner/repo/pull/<pr>, pr = 0 *)
(* any other path of the site, sub = 1 a sub-path of the PR (/files).      *)

Url(h, n, s) == [host |-> h, pr |-> n, sub |-> s]
NoUrl == Url(-1, 0, 0)        \* tab.url undefined or ""
AboutBlank == Url(0, 0, 0)    \* "about:blank"
OtherPage(p) == Url(p, 0, 0)  \* a page of the site that is no pull request

PullUrls(p) == {Url(p, 1, 0), Url(p, 1, 1), Url(p, 2, 0)}
\* What the tabs open at start show.
InitUrls == {Url(GitHubPRs, 1, 0), Url(GitHubPRs, 1, 1), OtherPage(GitHubPRs), NoUrl}

IsBlank(url) == url = NoUrl \/ url = AboutBlank

Range(s) == {s[i] : i \in DOMAIN s}
EmptyMap == [x \in {} |-> x]
Max(S) == CHOOSE x \in S : \A y \in S : y <= x
Min(S) == CHOOSE x \in S : \A y \in S : x <= y

GroupTitle(p) == p        \* config.groupTitle of provider p; 0 is a user's title
GroupColor == "blue"      \* config.groupColor

WindowId == 1             \* the window syncAll and the alarm handler pass to syncGroup
OtherWindow == 2          \* another normal window of the browser

---------------------------------------------------------------------------
(* The provider *)

normalizeUrl(p, url) ==
  IF url.host = p /\ url.pr > 0 THEN [url EXCEPT !.sub = 0] ELSE url

getTabMatchPattern(p, url) == url.host = p /\ url.pr > 0

RECURSIVE AddAll(_, _)
AddAll(acc, s) ==
  IF s = <<>> THEN acc
  ELSE AddAll(IF Head(s) \in Range(acc) THEN acc ELSE Append(acc, Head(s)), Tail(s))

\* One search query: a failed one is logged and skipped.
QueryStep(acc, r) == IF r.ok THEN AddAll(acc, r.items) ELSE acc

RECURSIVE RunQueries(_, _, _)
RunQueries(resp, q, acc) ==
  IF q > NumQueries THEN acc
  ELSE RunQueries(resp, q + 1, QueryStep(acc, resp[q]))

\* fetchUrls(config) given the remote answers: userOk, the /user lookup;
\* resp[q], the answer to query q.
fetchUrls(hasToken, userOk, resp) ==
  IF ~hasToken THEN [threw |-> FALSE, urls |-> <<>>]
  ELSE IF ~userOk THEN [threw |-> TRUE, urls |-> <<>>]
  ELSE [threw |-> FALSE, urls |-> RunQueries(resp, 1, <<>>)]

\* The remote answers a query can get: a failure, or up to one PR.
Answers(p) ==
  {[ok |-> FALSE, items |-> <<>>], [ok |-> TRUE, items |-> <<>>]}
    \cup {[ok |-> TRUE, items |-> <<u>>] : u \in PullUrls(p)}

---------------------------------------------------------------------------
(* Host primitives *)

TabsInGroup(T, g) == {t \in DOMAIN T : T[t].group = g}

\* The browser deletes a group when its last tab leaves it.
LiveGroups(T, G) == [g \in {h \in DOMAIN G : TabsInGroup(T, h) # {}} |-> G[g]]

\* browser.tabGroups.query({ windowId }): the groups of one window.
GroupsIn(w, G) == [g \in {h \in DOMAIN G : G[h].window = w} |-> G[g]]

\* Mutant: the lookup finds no group.
findNoGroup(title, G) == 0

findGroupByTitle(title, G) ==
  LET match == {g \in DOMAIN G : G[g].title = title}
  IN IF match = {} THEN 0 ELSE Min(match)

---------------------------------------------------------------------------
(* The matcher *)

NormalizedToOriginal(p, urls, n) ==
  urls[Max({i \in DOMAIN urls : normalizeUrl(p, urls[i]) = n})]

\* Mutant: the matcher takes any tab the pattern matches for every desired URL.
TabsByPatternOnly(p, urls, T) ==
  LET ghTabs == {t \in DOMAIN T : getTabMatchPattern(p, T[t].url)}
  IN [u \in {urls[i] : i \in {j \in DOMAIN urls : ghTabs # {}}} |-> Max(ghTabs)]

tabsByExactUrls(p, urls, T) ==
  LET ghTabs == {t \in DOMAIN T : getTabMatchPattern(p, T[t].url)}
      normalizedExpected == {normalizeUrl(p, urls[i]) : i \in DOMAIN urls}
      hit == {t \in ghTabs : T[t].url # NoUrl
                /\ normalizeUrl(p, T[t].url) \in normalizedExpected}
      orig(t) == NormalizedToOriginal(p, urls, normalizeUrl(p, T[t].url))
  IN [u \in {orig(t) : t \in hit} |-> Max({t \in hit : orig(t) = u})]

---------------------------------------------------------------------------
(* The engine's decisions *)

\* Mutant: no empty-result safeguard.
NoSafeguard(urls, groupId, existingTabs) == FALSE

\* Mutant: the safeguard spares only a group of several tabs.
SafeguardSparesSeveral(urls, groupId, existingTabs) ==
  Len(urls) = 0 /\ groupId # 0 /\ Cardinality(existingTabs) > 1

SafeguardAborts(urls, groupId, existingTabs) ==
  Len(urls) = 0 /\ groupId # 0 /\ Cardinality(existingTabs) > 0

\* Mutant: the pass opens no tab for a desired URL without one.
NeedNothing(urls, existingMap) == <<>>

Need(urls, existingMap) == SelectSeq(urls, LAMBDA u : u \notin DOMAIN existingMap)

\* Mutant: the prune step compares raw URLs, without normalizing.
ToCloseExactUrl(p, T, inGroup, urls) ==
  {t \in inGroup : ~IsBlank(T[t].url) /\ T[t].url \notin Range(urls)}

\* Mutant: the prune step keeps every tab the provider's pattern matches.
ToCloseByPattern(p, T, inGroup, urls) ==
  {t \in inGroup : ~IsBlank(T[t].url) /\ ~getTabMatchPattern(p, T[t].url)}

\* Mutant: the prune step does not skip tabs without a loaded URL.
ToCloseUnloadedToo(p, T, inGroup, urls) ==
  {t \in inGroup : normalizeUrl(p, T[t].url) \notin {normalizeUrl(p, urls[i]) : i \in DOMAIN urls}}

\* Mutant: the prune step judges only the pages the provider's pattern matches.
ToCloseProviderPagesOnly(p, T, inGroup, urls) ==
  {t \in inGroup : getTabMatchPattern(p, T[t].url)
     /\ normalizeUrl(p, T[t].url) \notin {normalizeUrl(p, urls[i]) : i \in DOMAIN urls}}

ToClose(p, T, inGroup, urls) ==
  LET keepNormalized == {normalizeUrl(p, urls[i]) : i \in DOMAIN urls}
  IN {t \in inGroup : ~IsBlank(T[t].url)
        /\ normalizeUrl(p, T[t].url) \notin keepNormalized}

\* Mutant: the prune step does not read config.closeMissing.
PruneWheneverGrouped(closeMissing, groupId) == groupId # 0

\* if (config.closeMissing && groupId)
PruneEnabled(closeMissing, groupId) == closeMissing /\ groupId # 0

\* Mutant: the catch block logs and returns.
CatchSwallows == "ok"

\* The catch block of syncGroup: log, then throw error.
CatchOutcome == "error"

---------------------------------------------------------------------------
(* State *)

NoPass ==
  [pc |-> "idle", prov |-> 0, groupId |-> 0, urls |-> <<>>, matched |-> {},
   existingMap |-> EmptyMap, need |-> <<>>, i |-> 1, allTabIds |-> {},
   created |-> {}, grouped |-> {}, removed |-> {}, removedUrls |-> {},
   outcome |-> "none", errAt |-> "none", remoteFailed |-> FALSE, fresh |-> FALSE,
   calls |-> <<>>,
   tabs0 |-> EmptyMap, groups0 |-> EmptyMap, loaded0 |-> TRUE,
   prev |-> [outcome |-> "none", urls |-> <<>>, errAt |-> "none", created |-> {}]]

NoSweep == [pc |-> "idle", idx |-> 1, started |-> <<>>, failed |-> {}]
NoResponse == [sent |-> FALSE, success |-> FALSE]
NoUi == [response |-> NoResponse, status |-> "none"]

\* No alarm, no handler under way.  alarm is the period of sync-<providerId>, 0
\* when there is none; inst, start and save are onInstalled, onStartup and
\* saveOptions with the configuration each holds in a local.
NoHandler == [pc |-> "idle", enabled |-> FALSE, pollMinutes |-> 0]
NoTimers == [alarm |-> 0, inst |-> NoHandler, start |-> NoHandler, save |-> NoHandler, saves |-> 0]

Loaded(T) == \A t \in DOMAIN T : T[t].url = T[t].target

\* The host calls a pass has issued so far, in order.
Call(P, cs) == [P EXCEPT !.calls = @ \o cs]

\* Tabs open at start: each loaded, in the provider's group (1) or in none.
InitTabSets(max) ==
  UNION {[1..n -> [url : InitUrls, group : {0, 1}]] : n \in 0..max}

InitBrowser(T) ==
  /\ tabs = [t \in DOMAIN T |-> [url |-> T[t].url, target |-> T[t].url, group |-> T[t].group,
                                  window |-> WindowId]]
  /\ groups = LiveGroups(tabs, (1 :> [title |-> GroupTitle(GitHubPRs), color |-> GroupColor,
                                       window |-> WindowId]))
  /\ nextTab = Len(T) + 1
  /\ nextGroup = 2

InitRest ==
  /\ pass = [k \in Procs |-> NoPass]
  /\ last = NoPass.prev
  /\ sweep = NoSweep
  /\ ui = NoUi
  /\ timers = NoTimers
  /\ passes = [alarm |-> 0, sweep |-> 0]

Init ==
  /\ \E T \in InitTabSets(InitTabs) : InitBrowser(T)
  /\ cfg \in [Providers -> [enabled : {TRUE}, token : BOOLEAN, closeMissing : BOOLEAN]]
  /\ cfg[GitHubPRs].token \/ cfg[GitHubPRs].closeMissing
  /\ \A p \in Providers : p # GitHubPRs => cfg[p] = [enabled |-> TRUE, token |-> TRUE, closeMissing |-> TRUE]
  /\ InitRest

---------------------------------------------------------------------------
(* syncGroup, step by step *)

Finish(k, rec, outcome, errAt) ==
  /\ pass' = [pass EXCEPT ![k] = [rec EXCEPT !.pc = "done", !.outcome = outcome, !.errAt = errAt,
                                                !.fresh = TRUE]]
  /\ last' = IF k = "alarm"
             THEN [outcome |-> outcome, urls |-> rec.urls, errAt |-> errAt, created |-> rec.created]
             ELSE last

\* Mutant: syncGroup looks the provider up and does not read config.enabled.
EnterIgnoresEnabled(k, p) ==
  LET rec == [NoPass EXCEPT !.prov = p, !.tabs0 = tabs, !.groups0 = groups,
                            !.loaded0 = Loaded(tabs), !.prev = last]
  IN IF p \notin Registered
     THEN [rec EXCEPT !.pc = "done", !.outcome = "noop"]
     ELSE [rec EXCEPT !.pc = "find"]

\* syncGroup(providerId, config, windowId) is entered: an unknown provider or
\* a disabled configuration returns at once.
Enter(k, p) ==
  LET rec == [NoPass EXCEPT !.prov = p, !.tabs0 = tabs, !.groups0 = groups,
                            !.loaded0 = Loaded(tabs), !.prev = last]
  IN IF p \notin Registered \/ ~cfg[p].enabled
     THEN [rec EXCEPT !.pc = "done", !.outcome = "noop"]
     ELSE [rec EXCEPT !.pc = "find"]

\* let groupId = await findOrCreateGroup(windowId, config.groupTitle, config.groupColor)
FindOrCreateGroup(k) ==
  LET P == pass[k]
      existing == findGroupByTitle(GroupTitle(P.prov), GroupsIn(WindowId, groups))
  IN /\ P.pc = "find"
     /\ groups' = IF existing # 0
                  THEN [groups EXCEPT ![existing].title = GroupTitle(P.prov),
                                      ![existing].color = GroupColor]
                  ELSE groups
     /\ pass' = [pass EXCEPT ![k] =
                   [Call(P, IF existing # 0 THEN <<"tabGroups.query", "tabGroups.update">>
                                            ELSE <<"tabGroups.query">>)
                      EXCEPT !.pc = "fetch", !.groupId = existing]]
     /\ UNCHANGED <<tabs, nextTab, nextGroup, cfg, timers, last, sweep, ui, passes>>

\* const urls = await provider.fetchUrls(config), and on to the next statement
FetchUrlsThen(k, next) ==
  LET P == pass[k] IN
  /\ P.pc = "fetch"
  /\ \E userOk \in BOOLEAN, resp \in [1..NumQueries -> Answers(P.prov)] :
       LET r == fetchUrls(cfg[P.prov].token, userOk, resp)
           failed == cfg[P.prov].token /\ (~userOk \/ \E q \in 1..NumQueries : ~resp[q].ok)
           rec == [Call(P, <<"fetchUrls">>) EXCEPT !.urls = r.urls, !.remoteFailed = failed]
       IN IF r.threw
          THEN Finish(k, rec, CatchOutcome, "fetch")
          ELSE /\ pass' = [pass EXCEPT ![k] = [rec EXCEPT !.pc = next]]
               /\ UNCHANGED last
  /\ UNCHANGED <<tabs, groups, nextTab, nextGroup, cfg, timers, sweep, ui, passes>>

FetchUrls(k) == FetchUrlsThen(k, "safeguard")

\* if (urls.length === 0 && groupId !== null) { existingTabs = await tabsInGroup ... return }
Safeguard(k) ==
  LET P == pass[k]
      Q == IF Len(P.urls) = 0 /\ P.groupId # 0 THEN Call(P, <<"tabs.query.groupId">>) ELSE P
  IN /\ P.pc = "safeguard"
     /\ IF SafeguardAborts(P.urls, P.groupId, TabsInGroup(tabs, P.groupId))
        THEN Finish(k, Q, "safeguard", "none")
        ELSE /\ pass' = [pass EXCEPT ![k] = [Q EXCEPT !.pc = "match"]]
             /\ UNCHANGED last
     /\ UNCHANGED <<tabs, groups, nextTab, nextGroup, cfg, timers, sweep, ui, passes>>

\* existingMap = await tabsByExactUrls(...); need; allTabIds
MatchWith(k, m) ==
  LET P == pass[k]
  IN /\ P.pc = "match"
     /\ pass' = [pass EXCEPT ![k] = [Call(P, <<"tabs.query.url">>) EXCEPT
                    !.pc = "create", !.existingMap = m,
                    !.matched = DOMAIN m, !.need = Need(P.urls, m), !.i = 1,
                    !.allTabIds = Range(m)]]
     /\ UNCHANGED <<tabs, groups, nextTab, nextGroup, cfg, timers, last, sweep, ui, passes>>

Match(k) == MatchWith(k, tabsByExactUrls(pass[k].prov, pass[k].urls, tabs))

\* Mutant: the prune step follows the create loop, group placement is left out.
PruneAfterCreateLoop == "prune"

\* The statement after the create loop: group placement.
AfterCreateLoop == "place"

\* Mutant: a tabs.create that rejects is caught per tab and the loop goes on.
CreateSkipsFailures(k) ==
  LET P == pass[k]
      Q == Call(P, <<"tabs.create">>)
  IN /\ P.pc = "create"
     /\ IF P.i > Len(P.need)
        THEN /\ pass' = [pass EXCEPT ![k] = [P EXCEPT !.pc = "place"]]
             /\ UNCHANGED <<tabs, nextTab>>
        ELSE \/ /\ nextTab <= MaxTabs
                /\ tabs' = (nextTab :> [url |-> AboutBlank, target |-> P.need[P.i], group |-> 0,
                                        window |-> WindowId]) @@ tabs
                /\ nextTab' = nextTab + 1
                /\ pass' = [pass EXCEPT ![k] = [Q EXCEPT !.i = P.i + 1,
                               !.existingMap = (P.need[P.i] :> nextTab) @@ P.existingMap,
                               !.allTabIds = P.allTabIds \cup {nextTab},
                               !.created = P.created \cup {nextTab}]]
             \/ /\ pass' = [pass EXCEPT ![k] = [Q EXCEPT !.i = P.i + 1, !.errAt = "create"]]
                /\ UNCHANGED <<tabs, nextTab>>
     /\ UNCHANGED <<groups, nextGroup, cfg, timers, last, sweep, ui, passes>>

\* for (const u of need) { t = await browser.tabs.create({url: u, active: false, windowId}) ... }
\* tabs.create may reject; the error leaves the loop and the try block.
Create(k) ==
  LET P == pass[k]
      Q == Call(P, <<"tabs.create">>)
  IN /\ P.pc = "create"
     /\ IF P.i > Len(P.need)
        THEN /\ pass' = [pass EXCEPT ![k] = [P EXCEPT !.pc = AfterCreateLoop]]
             /\ UNCHANGED <<tabs, nextTab, last>>
        ELSE \/ /\ nextTab <= MaxTabs
                /\ tabs' = (nextTab :> [url |-> AboutBlank, target |-> P.need[P.i], group |-> 0,
                                        window |-> WindowId]) @@ tabs
                /\ nextTab' = nextTab + 1
                /\ pass' = [pass EXCEPT ![k] = [Q EXCEPT !.i = P.i + 1,
                               !.existingMap = (P.need[P.i] :> nextTab) @@ P.existingMap,
                               !.allTabIds = P.allTabIds \cup {nextTab},
                               !.created = P.created \cup {nextTab}]]
                /\ UNCHANGED last
             \/ /\ Finish(k, Q, CatchOutcome, "create")
                /\ UNCHANGED <<tabs, nextTab>>
     /\ UNCHANGED <<groups, nextGroup, cfg, timers, sweep, ui, passes>>

\* browser.tabs.group: the tabs leave the group they were in and move to group
\* g, in window w; a group left empty disappears.
GroupTabs(T, ids, g, w) ==
  [t \in DOMAIN T |-> IF t \in ids THEN [T[t] EXCEPT !.group = g, !.window = w] ELSE T[t]]

\* Mutant: every target tab is passed to tabs.group, a member or not.
TabsToAddAll(allTabIds, alreadyInGroup) == allTabIds

\* const tabsToAdd = allTabIds.filter(id => !alreadyInGroup.has(id))
TabsToAdd(allTabIds, alreadyInGroup) == allTabIds \ alreadyInGroup

\* Mutant: the group is created whenever none exists, with or without tabs.
CreatesGroupAlways(groupId, allTabIds) == groupId = 0

\* if (groupId === null && allTabIds.length > 0)
CreatesGroup(groupId, allTabIds) == groupId = 0 /\ allTabIds # {}

\* else if (groupId !== null && allTabIds.length > 0)
AddsToGroup(groupId, allTabIds) == groupId # 0 /\ allTabIds # {}

\* Group placement: tabs.group with createProperties and tabGroups.update, or
\* tabsInGroup and tabs.group on the existing group.  tabs.group rejects a
\* closed tab or a group that is gone.
Place(k) ==
  LET P == pass[k]
      ids == P.allTabIds
      already == TabsInGroup(tabs, P.groupId)
      toAdd == TabsToAdd(ids, already)
  IN /\ P.pc = "place"
     /\ IF CreatesGroup(P.groupId, ids)
        THEN IF ids \subseteq DOMAIN tabs
             THEN /\ tabs' = GroupTabs(tabs, ids, nextGroup, WindowId)
                  /\ groups' = LiveGroups(tabs',
                        (nextGroup :> [title |-> GroupTitle(P.prov), color |-> GroupColor,
                                       window |-> WindowId]) @@ groups)
                  /\ nextGroup' = nextGroup + 1
                  /\ pass' = [pass EXCEPT ![k] =
                                [Call(P, <<"tabs.group", "tabGroups.update">>) EXCEPT
                                   !.pc = "prune", !.groupId = nextGroup, !.grouped = ids]]
                  /\ UNCHANGED last
             ELSE /\ Finish(k, Call(P, <<"tabs.group">>), CatchOutcome, "group")
                  /\ UNCHANGED <<tabs, groups, nextGroup>>
        ELSE IF ~AddsToGroup(P.groupId, ids)
        THEN /\ pass' = [pass EXCEPT ![k] = [P EXCEPT !.pc = "prune"]]
             /\ UNCHANGED <<tabs, groups, nextGroup, last>>
        ELSE IF toAdd = {}
        THEN /\ pass' = [pass EXCEPT ![k] = [Call(P, <<"tabs.query.groupId">>) EXCEPT !.pc = "prune"]]
             /\ UNCHANGED <<tabs, groups, nextGroup, last>>
        ELSE IF ~(toAdd \subseteq DOMAIN tabs) \/ P.groupId \notin DOMAIN groups
        THEN /\ Finish(k, Call(P, <<"tabs.query.groupId", "tabs.group">>), CatchOutcome, "group")
             /\ UNCHANGED <<tabs, groups, nextGroup>>
        ELSE /\ tabs' = GroupTabs(tabs, toAdd, P.groupId, groups[P.groupId].window)
             /\ groups' = LiveGroups(tabs', groups)
             /\ pass' = [pass EXCEPT ![k] =
                           [Call(P, <<"tabs.query.groupId", "tabs.group">>) EXCEPT
                              !.pc = "prune", !.grouped = toAdd]]
             /\ UNCHANGED <<nextGroup, last>>
     /\ UNCHANGED <<nextTab, cfg, timers, sweep, ui, passes>>

\* Prune: inGroup = await tabsInGroup(groupId); toClose; await tabs.remove(...)
PruneWith(k, toClose) ==
  LET P == pass[k] IN
  /\ P.pc = "prune"
  /\ IF PruneEnabled(cfg[P.prov].closeMissing, P.groupId)
     THEN /\ tabs' = [t \in DOMAIN tabs \ toClose |-> tabs[t]]
          /\ groups' = LiveGroups(tabs', groups)
          /\ Finish(k, [Call(P, IF toClose = {} THEN <<"tabs.query.groupId">>
                                ELSE <<"tabs.query.groupId", "tabs.remove">>)
                          EXCEPT !.removed = toClose,
                                 !.removedUrls = {tabs[t].url : t \in toClose}],
                    "ok", "none")
     ELSE /\ Finish(k, P, "ok", "none")
          /\ UNCHANGED <<tabs, groups>>
  /\ UNCHANGED <<nextTab, nextGroup, cfg, timers, sweep, ui, passes>>

Prune(k) ==
  PruneWith(k, ToClose(pass[k].prov, tabs, TabsInGroup(tabs, pass[k].groupId), pass[k].urls))

SyncGroupStep(k) ==
  \/ FindOrCreateGroup(k)
  \/ FetchUrls(k)
  \/ Safeguard(k)
  \/ Match(k)
  \/ Create(k)
  \/ Place(k)
  \/ Prune(k)

---------------------------------------------------------------------------
(* The alarm handler *)

\* Mutant: a handler waits until the other handler's pass or sweep has ended.
StartsWhenOtherIdle(otherBusy) == ~otherBusy

\* The listeners take no lock: a handler starts whether or not the other
\* handler is suspended at an await.
MayStart(otherBusy) == TRUE

\* browser.alarms.onAlarm: the pass of one provider, its error caught and logged.
OnAlarm(p) ==
  /\ pass["alarm"].pc \in {"idle", "done"}
  /\ MayStart(sweep.pc \notin {"idle", "answered"})
  /\ passes.alarm < MaxPasses
  /\ cfg[p].enabled
  /\ pass' = [pass EXCEPT !["alarm"] = Enter("alarm", p)]
  /\ passes' = [passes EXCEPT !.alarm = @ + 1]
  /\ UNCHANGED <<tabs, groups, nextTab, nextGroup, cfg, timers, last, sweep, ui>>

---------------------------------------------------------------------------
(* The browser *)

\* A tab finishes its navigation: tab.url becomes the URL it was opened with.
\* A finished pass is fresh until then: its result is as it returned it.
TabLoaded(t) ==
  /\ t \in DOMAIN tabs
  /\ tabs[t].url # tabs[t].target
  /\ tabs' = [tabs EXCEPT ![t].url = tabs[t].target]
  /\ pass' = [k \in Procs |-> [pass[k] EXCEPT !.fresh = FALSE]]
  /\ UNCHANGED <<groups, nextTab, nextGroup, cfg, timers, last, sweep, ui, passes>>

Environment ==
  \E t \in 1..MaxTabs : TabLoaded(t)
---------------------------------------------------------------------------
(* Passes of the github-prs provider, one after another, on its alarm *)

Next ==
  \/ OnAlarm(GitHubPRs)
  \/ SyncGroupStep("alarm")
  \/ Environment

Spec == Init /\ [][Next]_vars

---------------------------------------------------------------------------
(* Properties of one pass.  A is the pass of the alarm handler; TheGroup  *)
(* is the provider's group as findGroupByTitle sees it.                   *)

A == pass["alarm"]
Completed(P) == P.pc = "done" /\ P.outcome = "ok" /\ P.fresh
TheGroup(P, G) == findGroupByTitle(GroupTitle(P.prov), G)
NoTabCalls(P) == P.created = {} /\ P.grouped = {} /\ P.removed = {}
SameResource(p, u, v) == normalizeUrl(p, u) = normalizeUrl(p, v)

\* C1: when fetchUrls returned an empty list and the provider's group existed
\* with at least one tab, the pass stops at the safeguard: it issues no
\* tabs.create, tabs.group or tabs.remove, and the group's tabs are those it
\* had before the pass, whatever closeMissing is.
EmptyResultSafeguard ==
  LET g0 == TheGroup(A, A.groups0)
  IN (A.pc \notin {"idle", "find", "fetch"} /\ A.errAt = "none" /\ Len(A.urls) = 0 /\ g0 # 0)
       => /\ A.pc \in {"safeguard", "done"}
          /\ A.pc = "done" => A.outcome = "safeguard"
          /\ NoTabCalls(A)
          /\ TabsInGroup(tabs, g0) = TabsInGroup(A.tabs0, g0)

SafeguardStopped ==
  /\ A.pc = "done" /\ A.outcome = "safeguard"
  /\ cfg[A.prov].closeMissing
  /\ \E t \in TabsInGroup(tabs, A.groupId) : ~IsBlank(tabs[t].url)

\* C2 as amended: after a pass that completed, every URL of D is the resource
\* of at least one tab of the group (a tab still loading counts with the URL
\* it was opened with).
EveryDesiredUrlInGroup ==
  Completed(A) =>
    \A i \in DOMAIN A.urls :
      \E t \in TabsInGroup(tabs, TheGroup(A, groups)) :
        TheGroup(A, groups) # 0 /\ SameResource(A.prov, tabs[t].target, A.urls[i])

\* C2 as stated: after a pass that completed, every URL of D is the resource
\* of exactly one tab of the group.
ExactlyOneTabPerDesiredUrl ==
  Completed(A) =>
    \A i \in DOMAIN A.urls :
      /\ TheGroup(A, groups) # 0
      /\ Cardinality({t \in TabsInGroup(tabs, TheGroup(A, groups)) :
                        SameResource(A.prov, tabs[t].target, A.urls[i])}) = 1

MatchedAndCreated ==
  /\ Completed(A)
  /\ Len(A.urls) = 2
  /\ A.created # {} /\ A.matched # {}
  /\ A.removed # {}

SecondPassChangesNothing ==
  (A.pc = "done" /\ A.outcome \in {"ok", "safeguard"} /\ A.prev.outcome \in {"ok", "safeguard"}
     /\ A.prev.urls = A.urls /\ A.loaded0)
    => NoTabCalls(A) /\ tabs = A.tabs0 /\ groups = A.groups0

\* C5: the prune step never passes to tabs.remove a tab whose URL is empty or
\* about:blank.
PruneNeverClosesBlank == \A k \in Procs : \A u \in pass[k].removedUrls : ~IsBlank(u)

PrunedBesideBlank ==
  /\ A.pc = "done" /\ A.removed # {}
  /\ \E t \in TabsInGroup(tabs, A.groupId) : tabs[t].url = AboutBlank
  /\ \E t \in TabsInGroup(tabs, A.groupId) : tabs[t].url = NoUrl

\* C6: two different URLs of D that normalize to the same value are one
\* desired resource: a pass creates at most one tab for the pair, and none
\* when the matcher found an open tab for that resource.
CreatedFor(P, u) == {j \in 1..(P.i - 1) : P.need[j] = u}
OneTabPerNormalizedUrl ==
  \A i, j \in DOMAIN A.urls :
    (i < j /\ SameResource(A.prov, A.urls[i], A.urls[j]))
      => /\ Cardinality(CreatedFor(A, A.urls[i])) + Cardinality(CreatedFor(A, A.urls[j])) <= 1
         /\ (\E m \in A.matched : SameResource(A.prov, m, A.urls[i]))
              => CreatedFor(A, A.urls[i]) \cup CreatedFor(A, A.urls[j]) = {}

\* C7: when fetchUrls throws, the pass creates, groups and closes no tab and
\* syncGroup rejects with the error.
FetchThrowLeavesTabsAlone ==
  \A k \in Procs : pass[k].errAt = "fetch" => pass[k].outcome = "error" /\ NoTabCalls(pass[k])

FetchThrewWithGroupOpen ==
  /\ A.pc = "done" /\ A.errAt = "fetch"
  /\ A.groupId # 0 /\ cfg[A.prov].closeMissing
  /\ \E t \in TabsInGroup(tabs, A.groupId) : ~IsBlank(tabs[t].url)

\* C8: when a remote call of fetchUrls fails (the /user lookup or a search
\* query), the pass ends in an error before any tab is created, grouped or
\* closed.
RemoteFailureAbortsPass ==
  A.remoteFailed => NoTabCalls(A) /\ (A.pc = "done" => A.outcome = "error")

Count(log, c) == Cardinality({n \in DOMAIN log : log[n] = c})

\* C12: when a tabs.create call of a pass throws, that call is the last host
\* call of the pass (no further tabs.create, no tabs.group, no tabs.remove),
\* syncGroup rejects with the error, and the tabs the pass created before are
\* still open, none of them closed or put into a group.
CreateThrowAbortsWithoutRollback ==
  \A k \in Procs :
    LET P == pass[k] IN
    P.errAt = "create"
      => /\ P.pc = "done" /\ P.outcome = "error"
         /\ P.calls[Len(P.calls)] = "tabs.create"
         /\ Count(P.calls, "tabs.create") = Cardinality(P.created) + 1
         /\ Count(P.calls, "tabs.group") = 0 /\ Count(P.calls, "tabs.remove") = 0
         /\ P.grouped = {} /\ P.removed = {}
         /\ P.created \subseteq DOMAIN tabs
         /\ \A t \in P.created : tabs[t].group = 0

SecondCreateThrew ==
  /\ A.errAt = "create" /\ A.created # {}
  /\ A.groupId # 0 /\ cfg[A.prov].closeMissing
  /\ \E t \in TabsInGroup(tabs, A.groupId) : ~IsBlank(tabs[t].url) /\ t \notin Range(A.existingMap)


----------------------------------------------------------------------\* C13: a pass that found no group of the provider's title creates none when
\* its target membership (the matched tabs and the tabs it created) is empty;
\* otherwise it creates exactly one group, with one tabs.group call on exactly
\* the target membership, followed by the update of title and color.  No
\* group ever exists without a tab.
Target(P) == P.created \cup {P.existingMap[u] : u \in P.matched}
GroupCreatedOnceWithTarget ==
  /\ \A g \in DOMAIN groups : TabsInGroup(tabs, g) # {}
  /\ \A k \in Procs :
       LET P == pass[k] IN
       (P.pc \in {"prune", "done"} /\ P.outcome \in {"none", "ok"} /\ TheGroup(P, P.groups0) = 0)
         => IF Target(P) = {}
            THEN /\ Count(P.calls, "tabs.group") = 0 /\ P.groupId = 0
                 /\ DOMAIN groups = DOMAIN P.groups0
            ELSE /\ Count(P.calls, "tabs.group") = 1 /\ P.grouped = Target(P)
                 /\ DOMAIN groups \ DOMAIN P.groups0 = {P.groupId}
                 /\ TabsInGroup(tabs, P.groupId) = Target(P)
                 /\ groups[P.groupId].title = GroupTitle(P.prov)
                 /\ groups[P.groupId].color = GroupColor
                 /\ \E n \in DOMAIN P.calls :
                      /\ P.calls[n] = "tabs.group" /\ n < Len(P.calls)
                      /\ P.calls[n + 1] = "tabGroups.update"

GroupCreatedFromMatchedAndNew ==
  /\ Completed(A) /\ TheGroup(A, A.groups0) = 0
  /\ A.matched # {} /\ A.created # {}
  /\ TabsInGroup(tabs, A.groupId) = Target(A)

\* C14: a pass whose configuration has closeMissing false, or that has no
\* group id at the prune step, issues no tabs.remove; a tab only ever leaves
\* the browser in the prune step of a pass with closeMissing and a group id.
NoPruneWithoutCloseMissing ==
  /\ [](\A k \in Procs :
          LET P == pass[k] IN
          (P.pc # "idle" /\ (~cfg[P.prov].closeMissing \/ P.groupId = 0))
            => Count(P.calls, "tabs.remove") = 0 /\ P.removed = {})
  /\ [][DOMAIN tabs \subseteq DOMAIN tabs'
          \/ \E k \in Procs : /\ pass[k].pc = "prune"
                              /\ cfg[pass[k].prov].closeMissing
                              /\ pass[k].groupId # 0]_vars

UndesiredTabKeptTwice ==
  /\ Completed(A) /\ ~cfg[A.prov].closeMissing
  /\ A.prev.outcome = "ok" /\ Len(A.urls) > 0
  /\ \E t \in TabsInGroup(tabs, A.groupId) :
       /\ ~IsBlank(tabs[t].url)
       /\ \A i \in DOMAIN A.urls : ~SameResource(A.prov, tabs[t].url, A.urls[i])

\* C15: the host calls of a pass come in a fixed order: the group lookup and
\* repair, then fetchUrls, then the matcher's tabs.query, then the tabs.create
\* calls, then group placement, then the prune re-read and tabs.remove.  No
\* tab is created, grouped or closed before fetchUrls has returned, and the
\* prune step starts only when every target tab is in the group.
Before(log, a, b) == \A m, n \in DOMAIN log : (log[m] = a /\ log[n] = b) => m < n
CallsInFixedOrder ==
  \A k \in Procs :
    LET P == pass[k]
        L == P.calls
    IN /\ L # <<>> => L[1] = "tabGroups.query"
       /\ Count(L, "tabGroups.query") <= 1 /\ Count(L, "fetchUrls") <= 1
       /\ Count(L, "tabs.query.url") <= 1 /\ Count(L, "tabs.remove") <= 1
       /\ Before(L, "tabGroups.query", "fetchUrls")
       /\ \A n \in DOMAIN L : L[n] = "fetchUrls" => n \in {2, 3}
       /\ \A c \in {"tabs.query.url", "tabs.query.groupId", "tabs.create", "tabs.group", "tabs.remove"} :
            /\ Count(L, c) > 0 => Count(L, "fetchUrls") = 1
            /\ Before(L, "fetchUrls", c)
       /\ Before(L, "tabs.query.url", "tabs.create")
       /\ Before(L, "tabs.query.url", "tabs.group")
       /\ Before(L, "tabs.create", "tabs.group")
       /\ Before(L, "tabs.create", "tabs.remove")
       /\ Before(L, "tabs.group", "tabs.remove")
       /\ \A n \in DOMAIN L : L[n] = "tabs.remove" => n = Len(L) /\ L[n - 1] = "tabs.query.groupId"
       /\ (P.pc = "prune" /\ Target(P) # {})
            => P.groupId # 0 /\ Target(P) \subseteq TabsInGroup(tabs, P.groupId)

EveryKindOfCallMade ==
  /\ Completed(A)
  /\ \A c \in {"tabGroups.update", "fetchUrls", "tabs.query.url", "tabs.create", "tabs.group", "tabs.remove"} :
       Count(A.calls, c) > 0
  /\ Count(A.calls, "tabs.create") = 2

\* C23: with the passes of a provider one after another and nobody else
\* creating or renaming groups, the window never holds more than one group
\* with the provider's title, whatever way each pass ended.
TitledGroups(p, G) == {g \in DOMAIN G : G[g].title = GroupTitle(p) /\ G[g].window = WindowId}
AtMostOneProviderGroup ==
  \A p \in Providers : Cardinality(TitledGroups(p, groups)) <= 1

SecondPassExtendedTheGroup ==
  /\ Completed(A) /\ A.prev.outcome = "ok" /\ Len(A.prev.urls) > 0
  /\ TitledGroups(A.prov, A.groups0) # {}
  /\ A.grouped # {} /\ A.removed # {}
  /\ TitledGroups(A.prov, groups) = {A.groupId}

\* C26: a pass whose fetchUrls returned an empty list, the provider's no-token
\* answer included, creates no tab, creates and extends no group and closes
\* no tab, whether the group existed or not, and so does every pass after it:
\* the open tabs and their groups stay as they were when the pass started.
EmptyResultChangesNothing ==
  (A.pc \notin {"idle", "find", "fetch"} /\ A.errAt = "none" /\ Len(A.urls) = 0)
    => /\ NoTabCalls(A)
       /\ DOMAIN tabs = DOMAIN A.tabs0
       /\ \A t \in DOMAIN tabs : tabs[t].group = A.tabs0[t].group
       /\ groups = A.groups0

\* The second of two passes without a token has ended, the group's tab kept.
EmptyTwiceKeptGroup ==
  /\ A.pc = "done" /\ A.errAt = "none" /\ Len(A.urls) = 0
  /\ ~cfg[A.prov].token /\ cfg[A.prov].closeMissing
  /\ A.prev.outcome = "safeguard" /\ A.prev.urls = <<>>
  /\ Cardinality(TabsInGroup(tabs, A.groupId)) = 1

\* C27: a pass never empties the group: with nobody else closing, navigating
\* or regrouping tabs, and a created tab showing no URL or the URL it was
\* opened with, the prune step leaves at least one tab in the group: the set
\* it closes is never the whole membership it has just read.
PruneLeavesATab ==
  [][(A.pc = "prune" /\ A'.pc = "done" /\ PruneEnabled(cfg[A.prov].closeMissing, A.groupId))
       => /\ A'.removed # TabsInGroup(tabs, A.groupId)
          /\ TabsInGroup(tabs', A.groupId) # {}]_vars

\* The prune step closed every tab the group had before the pass; the group
\* lives on with the tabs the pass opened, none of them loaded yet.
PrunedAllOldKeptNew ==
  /\ A.pc = "done" /\ A.outcome = "ok" /\ A.fresh
  /\ A.removed # {} /\ A.removed = TabsInGroup(A.tabs0, A.groupId)
  /\ TabsInGroup(tabs, A.groupId) = A.created
  /\ A.created # {}

\* C28: recovery by the next tick: after a pass that stopped at a tabs.create
\* or tabs.group that threw, having opened tabs, the next pass that completes
\* with the same D, those tabs loaded, takes them into the group and opens no
\* duplicate: every desired URL then has exactly one open tab, in the group.
Orphaned(P) ==
  /\ P.prev.outcome = CatchOutcome /\ P.prev.errAt \in {"create", "group"}
  /\ P.prev.created # {}
  /\ P.prev.urls = P.urls /\ P.loaded0
NextPassAdoptsOrphans ==
  (Completed(A) /\ Orphaned(A))
    => /\ A.prev.created \subseteq TabsInGroup(tabs, TheGroup(A, groups))
       /\ \A i \in DOMAIN A.urls :
            LET open == {t \in DOMAIN tabs : SameResource(A.prov, tabs[t].target, A.urls[i])}
            IN Cardinality(open) = 1 /\ open \subseteq TabsInGroup(tabs, TheGroup(A, groups))

-----
(* The sweep and the manual trigger *)

ProviderOrder == [i \in 1..NumProviders |-> i]   \* Object.entries(cfg.groups)

\* Mutant: no try/catch around the pass, syncAll rejects.
SweepRejectsOnError == "reject"

\* syncAll's try/catch around each pass: the error is logged and the loop goes on.
SweepOnError == "continue"

\* options.js syncNow: the status shown once sendMessage has settled.
syncNowStatus(sendRejected) == IF sendRejected THEN "Sync failed" ELSE "Sync completed successfully!"

\* The listener's answer once syncAll has settled.
sendResponse(rejected) == [sent |-> TRUE, success |-> ~rejected]

\* runtime.onMessage {action: "syncNow"}: syncAll() is called.
OnMessage ==
  /\ sweep.pc \in {"idle", "answered"}
  /\ MayStart(pass["alarm"].pc \notin {"idle", "done"})
  /\ passes.sweep < MaxSweeps
  /\ sweep' = [NoSweep EXCEPT !.pc = "loop"]
  /\ ui' = [response |-> NoResponse, status |-> "Syncing..."]
  /\ passes' = [passes EXCEPT !.sweep = @ + 1]
  /\ UNCHANGED <<tabs, groups, nextTab, nextGroup, cfg, timers, pass, last>>

\* for (const [providerId, config] of Object.entries(cfg.groups)) if (config.enabled) ...
SweepLoop ==
  /\ sweep.pc = "loop"
  /\ IF sweep.idx > NumProviders
     THEN /\ sweep' = [sweep EXCEPT !.pc = "resolved"]
          /\ UNCHANGED pass
     ELSE LET p == ProviderOrder[sweep.idx] IN
          IF cfg[p].enabled
          THEN /\ sweep' = [sweep EXCEPT !.pc = "pass", !.started = Append(@, p)]
               /\ pass' = [pass EXCEPT !["sweep"] = Enter("sweep", p)]
          ELSE /\ sweep' = [sweep EXCEPT !.idx = @ + 1]
               /\ UNCHANGED pass
  /\ UNCHANGED <<tabs, groups, nextTab, nextGroup, cfg, timers, last, ui, passes>>

\* await syncGroup(...) has settled.
SweepAfterPass ==
  LET P == pass["sweep"] IN
  /\ sweep.pc = "pass"
  /\ P.pc = "done"
  /\ sweep' = IF P.outcome = "error"
              THEN IF SweepOnError = "continue"
                   THEN [sweep EXCEPT !.pc = "loop", !.idx = @ + 1, !.failed = @ \cup {P.prov}]
                   ELSE [sweep EXCEPT !.pc = "rejected", !.failed = @ \cup {P.prov}]
              ELSE [sweep EXCEPT !.pc = "loop", !.idx = @ + 1]
  /\ UNCHANGED <<tabs, groups, nextTab, nextGroup, cfg, timers, pass, last, ui, passes>>

\* syncAll().then(...).catch(...): the listener answers the options page.
Respond ==
  /\ sweep.pc \in {"resolved", "rejected"}
  /\ ui' = [ui EXCEPT !.response = sendResponse(sweep.pc = "rejected")]
  /\ sweep' = [sweep EXCEPT !.pc = "answered"]
  /\ UNCHANGED <<tabs, groups, nextTab, nextGroup, cfg, timers, pass, last, passes>>

\* options.js syncNow after await browser.runtime.sendMessage(...): the promise
\* resolves with whatever the listener answered.
ShowStatus ==
  /\ ui.status = "Syncing..."
  /\ ui.response.sent
  /\ ui' = [ui EXCEPT !.status = syncNowStatus(FALSE)]
  /\ UNCHANGED <<tabs, groups, nextTab, nextGroup, cfg, timers, pass, last, sweep, passes>>

\* A sweep on the options page's Sync Now, over several providers.
InitSweep ==
  /\ \E T \in InitTabSets(1) : InitBrowser(T)
  /\ cfg \in [Providers -> [enabled : BOOLEAN, token : {TRUE}, closeMissing : {TRUE}]]
  /\ InitRest

NextSweep ==
  \/ OnMessage
  \/ SweepLoop
  \/ SyncGroupStep("sweep")
  \/ SweepAfterPass
  \/ Respond
  \/ ShowStatus
  \/ Environment

SpecSweep == InitSweep /\ [][NextSweep]_vars

\* C9: in a sweep, a pass that throws does not stop the sweep: every enabled
\* provider's pass is started exactly once, in configuration order, and
\* syncAll resolves.
EnabledBefore(n) == SelectSeq(SubSeq(ProviderOrder, 1, n), LAMBDA p : cfg[p].enabled)
SweepStartsEveryEnabledProvider ==
  /\ sweep.pc # "rejected"
  /\ sweep.pc = "loop" => sweep.started = EnabledBefore(sweep.idx - 1)
  /\ sweep.pc = "pass" => sweep.started = EnabledBefore(sweep.idx)
  /\ sweep.pc \in {"resolved", "answered"} => sweep.started = EnabledBefore(NumProviders)

SweepWentOnAfterFailure ==
  /\ sweep.pc = "resolved"
  /\ 1 \in sweep.failed
  /\ Len(sweep.started) >= 2
  /\ pass["sweep"].outcome = "ok" /\ pass["sweep"].created # {}

\* C10: when a pass of a manual sync fails, the listener answers
\* success = false and the options page shows a failure status.
ManualSyncReportsFailure ==
  (sweep.failed # {} /\ ui.status \notin {"none", "Syncing..."})
    => ~ui.response.success /\ ui.status = "Sync failed"

---------------------------------------------------------------------------
(* syncGroup called directly, by a caller that checks nothing first *)

Unregistered == NumProviders + 1   \* an id of cfg.groups no provider script registered
CallIds == Providers \cup {Unregistered}

\* syncGroup(providerId, cfg.groups[providerId], windowId), whatever the id and
\* the configuration are.
CallSyncGroup(p) ==
  /\ pass["alarm"].pc \in {"idle", "done"}
  /\ passes.alarm < MaxPasses
  /\ pass' = [pass EXCEPT !["alarm"] = Enter("alarm", p)]
  /\ passes' = [passes EXCEPT !.alarm = @ + 1]
  /\ UNCHANGED <<tabs, groups, nextTab, nextGroup, cfg, timers, last, sweep, ui>>

InitCall ==
  /\ \E T \in InitTabSets(0) : InitBrowser(T)
  /\ cfg \in [CallIds -> [enabled : BOOLEAN, token : {TRUE}, closeMissing : {TRUE}]]
  /\ InitRest

NextCall ==
  \/ \E p \in CallIds : CallSyncGroup(p)
  \/ SyncGroupStep("alarm")
  \/ Environment

SpecCall == InitCall /\ [][NextCall]_vars

\* C11: syncGroup called with a provider id that is not registered, or with
\* config.enabled false, returns without throwing and has issued no host call:
\* no group query or update, no fetch, no tab query, create, group or remove;
\* no tab has joined or left the browser or changed its group.
UnknownOrDisabledIsNoOp ==
  \A k \in Procs :
    LET P == pass[k] IN
    (P.pc # "idle" /\ (P.prov \notin Registered \/ ~cfg[P.prov].enabled))
      => /\ P.pc = "done" /\ P.outcome = "noop" /\ P.errAt = "none"
         /\ P.calls = <<>> /\ NoTabCalls(P)
         /\ DOMAIN tabs = DOMAIN P.tabs0 /\ groups = P.groups0
         /\ \A t \in DOMAIN tabs : tabs[t].group = P.tabs0[t].group

DisabledAfterWorkingPass ==
  /\ A.pc = "done" /\ A.prov \in Registered /\ ~cfg[A.prov].enabled
  /\ A.prev.outcome = "ok" /\ Len(A.prev.urls) > 0
  /\ cfg[Unregistered].enabled

---------------------------------------------------------------------------
(* The syncGroup of background.js: the same lookup, create loop and group  *)
(* placement; its matcher and its prune step compare URLs as they are, and *)
(* nothing stands between fetchUrls and the matcher.                       *)

\* tabsByExactUrls(urls, matchPattern) of background.js
BgTabsByExactUrls(p, urls, T) ==
  LET ghTabs == {t \in DOMAIN T : getTabMatchPattern(p, T[t].url)}
      hit == {t \in ghTabs : T[t].url # NoUrl /\ T[t].url \in Range(urls)}
  IN [u \in {T[t].url : t \in hit} |-> Max({t \in hit : T[t].url = u})]

\* toClose of background.js: keep = new Set(urls)
BgToClose(T, inGroup, urls) ==
  {t \in inGroup : ~IsBlank(T[t].url) /\ T[t].url \notin Range(urls)}

BgFetchUrls(k) == FetchUrlsThen(k, "match")
BgMatch(k) == MatchWith(k, BgTabsByExactUrls(pass[k].prov, pass[k].urls, tabs))
BgPrune(k) == PruneWith(k, BgToClose(tabs, TabsInGroup(tabs, pass[k].groupId), pass[k].urls))

BgSyncGroupStep(k) ==
  \/ FindOrCreateGroup(k)
  \/ BgFetchUrls(k)
  \/ BgMatch(k)
  \/ Create(k)
  \/ Place(k)
  \/ BgPrune(k)

InitBg ==
  /\ \E T \in InitTabSets(1) : InitBrowser(T)
  /\ cfg \in [Providers -> [enabled : {TRUE}, token : BOOLEAN, closeMissing : BOOLEAN]]
  /\ \A p \in Providers : p # GitHubPRs => cfg[p] = [enabled |-> TRUE, token |-> TRUE, closeMissing |-> TRUE]
  /\ InitRest

NextBg ==
  \/ OnAlarm(GitHubPRs)
  \/ BgSyncGroupStep("alarm")
  \/ Environment

SpecBg == InitBg /\ [][NextBg]_vars

\* C16: in background.js too, a pass whose fetchUrls returned an empty list
\* while the provider's group existed with at least one tab closes no tab of
\* the group, with closeMissing true.
BgEmptyResultSafeguard ==
  LET g0 == TheGroup(A, A.groups0)
  IN (A.pc \notin {"idle", "find", "fetch"} /\ A.errAt = "none" /\ Len(A.urls) = 0
        /\ g0 # 0 /\ cfg[A.prov].closeMissing)
       => /\ A.removed = {}
          /\ TabsInGroup(A.tabs0, g0) \subseteq DOMAIN tabs

---------------------------------------------------------------------------
(* Passes in a browser with two windows.  The pass works for WindowId; the *)
(* other window has tabs of its own, some in a group of the user's.        *)

UserGroup == 2            \* a group the user made in the other window
UserTitle == 0            \* its title, no provider's groupTitle

\* Where a tab open at start sits: [group, window].
Places ==
  {[group |-> 1, window |-> WindowId], [group |-> 0, window |-> WindowId],
   [group |-> 0, window |-> OtherWindow], [group |-> UserGroup, window |-> OtherWindow]}

InitWin ==
  /\ \E n \in 0..InitTabs : \E T \in [1..n -> [url : InitUrls, place : Places]] :
       /\ tabs = [t \in 1..n |-> [url |-> T[t].url, target |-> T[t].url,
                                  group |-> T[t].place.group, window |-> T[t].place.window]]
       /\ nextTab = n + 1
  /\ groups = LiveGroups(tabs,
       (1 :> [title |-> GroupTitle(GitHubPRs), color |-> GroupColor, window |-> WindowId])
         @@ (UserGroup :> [title |-> UserTitle, color |-> "grey", window |-> OtherWindow]))
  /\ nextGroup = UserGroup + 1
  /\ cfg = [p \in Providers |-> [enabled |-> TRUE, token |-> TRUE, closeMissing |-> TRUE]]
  /\ InitRest

SpecWin == InitWin /\ [][Next]_vars

\* C17: a pass works in one window: every tab a step creates, closes, moves to
\* another group or moves to another window is a tab of WindowId; the tabs of
\* the other window stay where they are.
PassStaysInItsWindow ==
  [][\A t \in DOMAIN tabs \cup DOMAIN tabs' :
       /\ t \notin DOMAIN tabs => tabs'[t].window = WindowId
       /\ t \notin DOMAIN tabs' => tabs[t].window = WindowId
       /\ (t \in DOMAIN tabs /\ t \in DOMAIN tabs'
             /\ (tabs'[t].group # tabs[t].group \/ tabs'[t].window # tabs[t].window))
            => tabs[t].window = WindowId]_vars

---------------------------------------------------------------------------
(* Passes while the user works in the window *)

\* The user drags an ungrouped tab into a group.
UserGroupsTab(t, g) ==
  /\ t \in DOMAIN tabs /\ g \in DOMAIN groups
  /\ tabs[t].group = 0
  /\ tabs' = GroupTabs(tabs, {t}, g, groups[g].window)
  /\ groups' = LiveGroups(tabs', groups)
  /\ pass' = [k \in Procs |-> [pass[k] EXCEPT !.fresh = FALSE]]
  /\ UNCHANGED <<nextTab, nextGroup, cfg, timers, last, sweep, ui, passes>>

InitUser ==
  /\ \E T \in InitTabSets(InitTabs) : InitBrowser(T)
  /\ cfg = [p \in Providers |-> [enabled |-> TRUE, token |-> TRUE, closeMissing |-> TRUE]]
  /\ InitRest

NextUser ==
  \/ OnAlarm(GitHubPRs)
  \/ SyncGroupStep("alarm")
  \/ Environment
  \/ \E t \in 1..MaxTabs, g \in 1..MaxTabs : UserGroupsTab(t, g)

SpecUser == InitUser /\ [][NextUser]_vars

\* C18: with closeMissing and a group id, the prune step closes, in one
\* tabs.remove call, exactly the tabs that are in the group when the step
\* reads it, have a URL that is neither empty nor about:blank, and whose
\* normalized URL is the normalized form of no URL of D; it issues no
\* tabs.remove when there is none.  A tab somebody else put into the group
\* during the pass is judged like the others.
PruneSetIsExact ==
  [][\A k \in Procs :
       (pass[k].pc = "prune" /\ pass'[k].pc = "done"
          /\ cfg[pass[k].prov].closeMissing /\ pass[k].groupId # 0)
         => LET P == pass[k]
                D == {normalizeUrl(P.prov, P.urls[i]) : i \in DOMAIN P.urls}
                S == {t \in DOMAIN tabs : /\ tabs[t].group = P.groupId
                                          /\ tabs[t].url # NoUrl /\ tabs[t].url # AboutBlank
                                          /\ normalizeUrl(P.prov, tabs[t].url) \notin D}
            IN /\ DOMAIN tabs \ DOMAIN tabs' = S
               /\ pass'[k].removed = S
               /\ Count(pass'[k].calls, "tabs.remove") = (IF S = {} THEN 0 ELSE 1)
               /\ \A t \in DOMAIN tabs' : t \in DOMAIN tabs /\ tabs'[t] = tabs[t]]_vars

ClosedTabTheUserAdded ==
  /\ A.pc = "done" /\ A.outcome = "ok" /\ A.grouped # {}
  /\ \E t \in A.removed : A.tabs0[t].group = 0 /\ t \notin A.grouped
  /\ \E t \in TabsInGroup(tabs, A.groupId) : t \notin A.grouped /\ A.tabs0[t].group = 0

\* C19: when the group exists, group placement adds to it exactly the target
\* tabs that are not members when the step reads the group, with one
\* tabs.group call and none when there is no such tab; no member leaves the
\* group in the step and no other tab changes.
PlacementAddsOnlyMissing ==
  [][\A k \in Procs :
       (pass[k].pc = "place" /\ pass[k].groupId # 0 /\ pass'[k].pc = "prune")
         => LET P == pass[k]
                members == {t \in DOMAIN tabs : tabs[t].group = P.groupId}
                missing == Target(P) \ members
            IN /\ {t \in DOMAIN tabs' : tabs'[t].group = P.groupId} = members \cup Target(P)
               /\ pass'[k].grouped = missing
               /\ Count(pass'[k].calls, "tabs.group") = (IF missing = {} THEN 0 ELSE 1)
               /\ DOMAIN tabs' = DOMAIN tabs
               /\ \A t \in DOMAIN tabs \ missing : tabs'[t] = tabs[t]]_vars

AddedBesideMembers ==
  /\ A.pc = "prune" /\ TheGroup(A, A.groups0) # 0
  /\ A.grouped # {} /\ Target(A) \ A.grouped # {}
  /\ A.created # {}
  /\ \E t \in TabsInGroup(tabs, A.groupId) : t \notin Target(A)

---------------------------------------------------------------------------
(* The matcher's contract *)

\* C20: the matcher returns a map from desired URLs to open tabs, one tab for
\* a URL at most; each tab it returns has a URL, and that URL and the desired
\* URL it stands for normalize to the same value; the matcher's only host call
\* is a tabs.query, it changes no tab and no group.
MatcherMapsUrlsToMatchingTabs ==
  [][\A k \in Procs :
       (pass[k].pc = "match" /\ pass'[k].pc = "create")
         => LET P == pass[k]
                m == pass'[k].existingMap
            IN /\ DOMAIN m \subseteq Range(P.urls)
               /\ Cardinality({m[u] : u \in DOMAIN m}) <= Cardinality(Range(P.urls))
               /\ \A u \in DOMAIN m :
                    /\ m[u] \in DOMAIN tabs
                    /\ tabs[m[u]].url # NoUrl
                    /\ normalizeUrl(P.prov, tabs[m[u]].url) = normalizeUrl(P.prov, u)
               /\ pass'[k].calls = Append(P.calls, "tabs.query.url")
               /\ tabs' = tabs /\ groups' = groups
               /\ nextTab' = nextTab /\ nextGroup' = nextGroup]_vars

MatchedAtSubPath ==
  /\ A.pc = "create" /\ A.i = 1
  /\ \E u \in A.matched : tabs[A.existingMap[u]].url # u
  /\ \E t \in DOMAIN tabs :
       /\ getTabMatchPattern(A.prov, tabs[t].url)
       /\ \A i \in DOMAIN A.urls : ~SameResource(A.prov, tabs[t].url, A.urls[i])

\* C21: when two URLs of D normalize to the same value, the matcher keeps the
\* first of them: a tab of that resource is mapped to the earliest URL of D
\* with its normalized form.
FirstOriginal(p, urls, u) ==
  urls[Min({i \in DOMAIN urls : normalizeUrl(p, urls[i]) = normalizeUrl(p, u)})]
MatcherKeepsFirstOriginal ==
  \A k \in Procs :
    LET P == pass[k] IN
    (P.pc = "create" /\ P.i = 1)
      => \A u \in DOMAIN P.existingMap : u = FirstOriginal(P.prov, P.urls, u)

---------------------------------------------------------------------------
(* Passes after the user has edited the provider's group: its title, its   *)
(* color, both or none.                                                    *)

GroupEdits ==
  [title : {GroupTitle(GitHubPRs), UserTitle}, color : {GroupColor, "red"}, window : {WindowId}]

InitDrift ==
  /\ \E T \in InitTabSets(1), e \in GroupEdits :
       /\ tabs = [t \in DOMAIN T |-> [url |-> T[t].url, target |-> T[t].url, group |-> T[t].group,
                                      window |-> WindowId]]
       /\ groups = LiveGroups(tabs, (1 :> e))
       /\ nextTab = Len(T) + 1
  /\ nextGroup = 2
  /\ cfg \in [Providers -> [enabled : {TRUE}, token : BOOLEAN, closeMissing : {TRUE}]]
  /\ \A p \in Providers : p # GitHubPRs => cfg[p] = [enabled |-> TRUE, token |-> TRUE, closeMissing |-> TRUE]
  /\ InitRest

SpecDrift == InitDrift /\ [][Next]_vars

\* C22: when the provider's group exists at the start of a pass with a title
\* or a color that is not the configured one, the group has the configured
\* title and color again when the pass calls fetchUrls.
DriftRepairedBeforeFetch ==
  (A.pc = "fetch")
    => \A g \in DOMAIN A.groups0 :
         /\ g \in DOMAIN groups
         /\ groups[g].title = GroupTitle(A.prov)
         /\ groups[g].color = GroupColor

---------------------------------------------------------------------------
(* The alarm handler and a manual sync at the same time *)

InitOverlap ==
  /\ \E T \in InitTabSets(0) : InitBrowser(T)
  /\ cfg = [p \in Providers |-> [enabled |-> (p = GitHubPRs), token |-> TRUE, closeMissing |-> TRUE]]
  /\ pass = [k \in Procs |-> NoPass]
  /\ last = NoPass.prev
  /\ sweep = NoSweep
  /\ ui = NoUi
  /\ timers = NoTimers
  /\ passes = [alarm |-> MaxPasses - 1, sweep |-> 0]    \* one tick of the alarm, one manual sync

NextOverlap ==
  \/ OnAlarm(GitHubPRs)
  \/ SyncGroupStep("alarm")
  \/ OnMessage
  \/ SweepLoop
  \/ SyncGroupStep("sweep")
  \/ SweepAfterPass
  \/ Respond
  \/ ShowStatus
  \/ Environment

SpecOverlap == InitOverlap /\ [][NextOverlap]_vars

\* C24: passes are not mutually excluded: a manual sync can start while the
\* alarm's pass is suspended at an await, and the alarm's pass can start while
\* a sweep is under way.  (The state the race ends in, two groups with the
\* provider's title and two tabs for one desired URL, is TwoGroupsTwoTabs.)
AlarmBusy == pass["alarm"].pc \notin {"idle", "done"}
SweepBusy == sweep.pc \notin {"idle", "answered"}
PassesNotExcluded ==
  /\ (AlarmBusy /\ ~SweepBusy /\ passes.sweep < MaxSweeps) => ENABLED OnMessage
  /\ (SweepBusy /\ ~AlarmBusy /\ passes.alarm < MaxPasses /\ cfg[GitHubPRs].enabled)
       => ENABLED OnAlarm(GitHubPRs)

TwoGroupsTwoTabs ==
  /\ Cardinality(TitledGroups(GitHubPRs, groups)) = 2
  /\ \E t1, t2 \in DOMAIN tabs :
       /\ t1 # t2 /\ tabs[t1].target = tabs[t2].target
       /\ tabs[t1].group # tabs[t2].group
       /\ t1 \in pass["alarm"].created /\ t2 \in pass["sweep"].created
       /\ pass["alarm"].urls = pass["sweep"].urls
  /\ pass["alarm"].outcome = "ok" /\ pass["sweep"].outcome = "ok"

---------------------------------------------------------------------------
(* The alarm of the provider: onInstalled, onStartup and the options       *)
(* page's saveOptions.  cfg.groups has the one key of DEFAULTS.  The await *)
(* of syncAll() is the step at which it settles: syncAll reads no alarm    *)
(* and writes no configuration, what it does to tabs is SpecSweep's.       *)

DefaultPoll == 5                          \* DEFAULTS pollMinutes
PollChoices == {DefaultPoll, 2 * DefaultPoll}

T == timers
TimerVars == <<tabs, groups, nextTab, nextGroup, pass, last, sweep, ui, passes>>

\* What a handler holds after reading or building a configuration.
Holding(pc, c) == [pc |-> pc, enabled |-> c.enabled, pollMinutes |-> c.pollMinutes]

\* The loop over cfg.groups of onInstalled and onStartup: the alarm is created
\* for an enabled provider, and left as it is for a disabled one.
AlarmAfterHandler(alarm, h) == IF h.enabled THEN h.pollMinutes ELSE alarm

\* The loop of saveOptions: alarms.clear, then alarms.create if enabled.
AlarmAfterSave(h) == IF h.enabled THEN h.pollMinutes ELSE 0

\* onInstalled: cfg = await getCfg()
InstalledGetCfg ==
  /\ T.inst.pc = "idle"
  /\ timers' = [T EXCEPT !.inst = Holding("setCfg", cfg[GitHubPRs])]
  /\ UNCHANGED <<cfg, TimerVars>>

\* onInstalled: await setCfg(cfg)
InstalledSetCfg ==
  /\ T.inst.pc = "setCfg"
  /\ cfg' = [cfg EXCEPT ![GitHubPRs].enabled = T.inst.enabled,
                        ![GitHubPRs].pollMinutes = T.inst.pollMinutes]
  /\ timers' = [T EXCEPT !.inst.pc = "syncAll"]
  /\ UNCHANGED TimerVars

\* onInstalled: await syncAll()
InstalledSyncAll ==
  /\ T.inst.pc = "syncAll"
  /\ timers' = [T EXCEPT !.inst.pc = "alarms"]
  /\ UNCHANGED <<cfg, TimerVars>>

\* onInstalled: the loop that creates the alarms, from the cfg read at the start
InstalledAlarms ==
  /\ T.inst.pc = "alarms"
  /\ timers' = [T EXCEPT !.inst.pc = "done", !.alarm = AlarmAfterHandler(T.alarm, T.inst)]
  /\ UNCHANGED <<cfg, TimerVars>>

\* onStartup: await syncAll()
StartupSyncAll ==
  /\ T.start.pc = "idle"
  /\ timers' = [T EXCEPT !.start.pc = "getCfg"]
  /\ UNCHANGED <<cfg, TimerVars>>

\* onStartup: cfg = await getCfg()
StartupGetCfg ==
  /\ T.start.pc = "getCfg"
  /\ timers' = [T EXCEPT !.start = Holding("alarms", cfg[GitHubPRs])]
  /\ UNCHANGED <<cfg, TimerVars>>

\* onStartup: the loop that creates the alarms
StartupAlarms ==
  /\ T.start.pc = "alarms"
  /\ timers' = [T EXCEPT !.start.pc = "done", !.alarm = AlarmAfterHandler(T.alarm, T.start)]
  /\ UNCHANGED <<cfg, TimerVars>>

\* saveOptions: cfg built from the form; await browser.storage.local.set({ cfg })
SaveStore(enabled, pollMinutes) ==
  /\ T.save.pc \in {"idle", "done"}
  /\ T.saves < MaxSaves
  /\ cfg' = [cfg EXCEPT ![GitHubPRs].enabled = enabled, ![GitHubPRs].pollMinutes = pollMinutes]
  /\ timers' = [T EXCEPT !.save = [pc |-> "clear", enabled |-> enabled, pollMinutes |-> pollMinutes],
                         !.saves = @ + 1]
  /\ UNCHANGED TimerVars

\* saveOptions: await browser.alarms.clear(...)
SaveClear ==
  /\ T.save.pc = "clear"
  /\ timers' = [T EXCEPT !.save.pc = "create", !.alarm = 0]
  /\ UNCHANGED <<cfg, TimerVars>>

\* saveOptions: if (config.enabled) await browser.alarms.create(...)
SaveCreate ==
  /\ T.save.pc = "create"
  /\ timers' = [T EXCEPT !.save.pc = "done", !.alarm = AlarmAfterSave(T.save)]
  /\ UNCHANGED <<cfg, TimerVars>>

InitTimers ==
  /\ \E W \in InitTabSets(0) : InitBrowser(W)
  /\ cfg \in [{GitHubPRs} -> [enabled : BOOLEAN, token : {TRUE}, closeMissing : {TRUE},
                              pollMinutes : PollChoices]]
  /\ InitRest

NextTimers ==
  \/ InstalledGetCfg
  \/ InstalledSetCfg
  \/ InstalledSyncAll
  \/ InstalledAlarms
  \/ StartupSyncAll
  \/ StartupGetCfg
  \/ StartupAlarms
  \/ \E en \in BOOLEAN, pm \in PollChoices : SaveStore(en, pm)
  \/ SaveClear
  \/ SaveCreate

SpecTimers == InitTimers /\ [][NextTimers]_vars

\* C25: once onInstalled, onStartup and every saveOptions have run to their
\* end, in whatever interleaving, the alarm of the provider exists exactly
\* when the stored configuration has the provider enabled, and its period is
\* the stored pollMinutes.
HandlersDone ==
  /\ T.inst.pc = "done" /\ T.start.pc = "done" /\ T.save.pc \in {"idle", "done"}
AlarmMatchesStoredConfig ==
  HandlersDone
    => /\ (T.alarm # 0) <=> cfg[GitHubPRs].enabled
       /\ T.alarm # 0 => T.alarm = cfg[GitHubPRs].pollMinutes

====
